---- MODULE Spec2Model ----
(***************************************************************************)
(* The JNI bridge of HiOCR (src/src/main/cpp/native-lib.cpp): the four     *)
(* native entry points createNativeAnalyzer, destroyNativeAnalyzer,        *)
(* analyzeTextDataNative and decryptionDataNative, the native heap they    *)
(* allocate on (HiOCRAnalyzer instances, HiTextInfo copies) and the JNI    *)
(* resources they take (local references, UTF buffers, the pending         *)
(* exception).                                                             *)
(*                                                                         *)
(* analyzeTextDataNative is modelled in steps (entry checks and lookups,   *)
(* one step per loop iteration, the call into the engine, the return from  *)
(* the engine with the clean-up), because properties of single iterations  *)
(* and of the call into the engine are stated about its intermediate       *)
(* states.  The other three entry points are one step each.                *)
(*                                                                         *)
(* Spec takes the calls of one caller thread, one at a time, with every    *)
(* argument and every fault.  SpecConc interleaves the steps of analyze    *)
(* calls made by two threads on different live engines.                    *)
(***************************************************************************)
EXTENDS Integers, Sequences, FiniteSets, TLC

(* ------------------------------ bounds --------------------------------- *)

\* HiOCRAnalyzer constructions explored in one run; as many native addresses
\* are available, so a new engine may or may not reuse a released address.
MaxCreate == 2
\* Longest textInfoArray explored.
MaxLen == 3
\* Faults explored in one run: a call with a non-zero handle that identifies
\* no live engine, a GetStringUTFChars that returns NULL, a GetFieldID that
\* fails, a constructor, an allocation or an engine call that throws.
MaxFaults == 1

VARIABLES
    live,         \* addresses holding a constructed, not yet deleted HiOCRAnalyzer
    freed,        \* addresses whose HiOCRAnalyzer was deleted and that were not allocated again
    constructed,  \* HiOCRAnalyzer constructors completed so far
    destructed,   \* delete-expressions run on a HiOCRAnalyzer* so far
    heapRecs,     \* HiTextInfo objects allocated with new and not deleted
    staleCalls,   \* calls made with a non-zero handle that identified no live engine
    faults,       \* faults so far (see MaxFaults)
    proc,         \* "running" | "aborted" (the process died)
    frame         \* per caller thread: the native call in flight, or the last one made

vars == <<live, freed, constructed, destructed, heapRecs, staleCalls, faults, proc, frame>>

Addr == 1..MaxCreate

(* ------------------------------ strings -------------------------------- *)

\* A Java string is a sequence of UTF-16 code units (small naturals here, 0 is
\* U+0000) or the null reference.
NullJ == [null |-> TRUE, chars |-> <<>>]
JStr(cs) == [null |-> FALSE, chars |-> cs]

RECURSIVE ModUTF8(_)
\* GetStringUTFChars: the modified UTF-8 form, in which U+0000 is the two
\* bytes C0 80, so the buffer holds no zero byte before its terminator.
ModUTF8(cs) ==
    IF cs = <<>> THEN <<>>
    ELSE (IF Head(cs) = 0 THEN <<192, 128>> ELSE <<Head(cs)>>) \o ModUTF8(Tail(cs))

RECURSIVE CStr(_)
\* std::string(const char*) and std::string::c_str() read to the first zero byte.
CStr(bs) ==
    IF bs = <<>> \/ Head(bs) = 0 THEN <<>> ELSE <<Head(bs)>> \o CStr(Tail(bs))

RECURSIVE FromModUTF8(_)
\* NewStringUTF: decodes modified UTF-8 (C0 80 is U+0000).
FromModUTF8(bs) ==
    IF bs = <<>> THEN <<>>
    ELSE IF Len(bs) >= 2 /\ bs[1] = 192 /\ bs[2] = 128
         THEN <<0>> \o FromModUTF8(Tail(Tail(bs)))
         ELSE <<Head(bs)>> \o FromModUTF8(Tail(bs))

NewStringUTF(stdstr) == JStr(FromModUTF8(CStr(stdstr)))

(* ------------------------------ inputs --------------------------------- *)

\* What the foreign side answers for one array element:
\*   "null"      GetObjectArrayElement returns NULL
\*   "bboxNull"  getBBox() returns null         "bboxRaise"  getBBox() throws
\*   "textNull"  getText() returns null         "textRaise"  getText() throws
\*   "ok"        both accessors return an object
Kinds == {"null", "bboxNull", "bboxRaise", "textNull", "textRaise", "ok"}

\* The payload of the element at index i (1-based) of a collection.
ElemText(i) == IF i = 2 THEN <<2, 0, 3>> ELSE IF i = 3 THEN <<>> ELSE <<i>>
ElemRect(i) == [x |-> i, y |-> 10 + i, width |-> 20 - 10 * i, height |-> 30 + i]

MkElem(k, i) == [kind |-> k, at |-> i, text |-> ElemText(i), rect |-> ElemRect(i)]

\* What a call's frame remembers of an element it has retrieved.
Seen(e) == [ok |-> e.kind = "ok", text |-> e.text, rect |-> e.rect]

\* A textInfoArray argument: the null reference, or an array of len elements.
\* The code learns an element only when it retrieves it and calls its
\* accessors (70-84), so what the element answers is drawn at that step.
NullArr == [null |-> TRUE, len |-> 0]
MkArr(n) == [null |-> FALSE, len |-> n]
Arrays == {NullArr} \cup {MkArr(n) : n \in 0..MaxLen}

\* Strings the engine may answer from analyzeTextData / decryptionData.
EngineStrings == {<<7>>, <<7, 0, 8>>}

\* What a call into the engine does: it returns a std::string, or it throws.
EngineAnswers ==
    {[raises |-> TRUE, s |-> <<>>]} \cup {[raises |-> FALSE, s |-> x] : x \in EngineStrings}

\* Strings a caller passes to decrypt; the null reference among them.
DecryptInputs == {NullJ, JStr(<<5>>), JStr(<<5, 0, 6>>)}

(* ------------------------------ frames --------------------------------- *)

\* The frame of a native call: its arguments, its locals and what it did.
\* pc = "idle": no call in flight; the other fields describe the last call.
Fresh(op, h) ==
    [op           |-> op,        \* "none" | "create" | "destroy" | "analyze" | "decrypt"
     pc           |-> "idle",    \* "idle" | "loop" | "engine"
     handle       |-> h,
     arr          |-> NullArr,   \* textInfoArray
     input        |-> NullJ,     \* the jstring argument of decrypt
     i            |-> 0,         \* the loop variable i (0-based)
     seen         |-> <<>>,      \* per element retrieved so far, in order: its payload
                                 \* and whether it was well-formed (answered "ok")
     answer       |-> "none",    \* what the element retrieved last answered (a kind)
     textPointers |-> <<>>,      \* std::vector<HiTextInfo*>
     localRefs    |-> {},        \* JNI local references not deleted: <<index, what>>
     bufs         |-> 0,         \* GetStringUTFChars buffers not released
     exc          |-> FALSE,     \* a Java exception is pending in env
     engineCalls  |-> 0,         \* calls made into HiOCRAnalyzer member functions
     stale        |-> FALSE,     \* a call or delete was made on a non-live engine
     passed       |-> <<>>,      \* the vector handed to analyzeTextData
     engineIn     |-> <<>>,      \* the std::string handed to decryptionData
     engineOut    |-> <<>>,      \* the std::string the engine answered
     created      |-> 0,         \* HiTextInfo objects this call allocated
     released     |-> 0,         \* HiTextInfo objects this call deleted
     result       |-> NullJ,     \* the jstring returned
     ret          |-> 0,         \* the jlong returned (create)
     outcome      |-> "none"]    \* "none" | "returned" | "raised" | "aborted"

Idle(t) == frame[t].pc = "idle"

Init ==
    /\ live = {}
    /\ freed = {}
    /\ constructed = 0
    /\ destructed = 0
    /\ heapRecs = 0
    /\ staleCalls = 0
    /\ faults = 0
    /\ proc = "running"
    /\ frame = [t \in {1} |-> Fresh("none", 0)]

Threads == DOMAIN frame

\* Handles a caller can hold: 0, and every value a create call returned.
CallerHandles == {0} \cup live \cup freed

\* A further fault may be explored.
FaultBudget == faults < MaxFaults

\* Handle h is not 0 and identifies no live engine.
StaleHandle(h) == h # 0 /\ h \notin live

\* What stays of a frame when its call is over: the locals are gone, the JVM
\* has dropped the call's local references.
Exit(f, o) ==
    [f EXCEPT !.pc = "idle", !.outcome = o, !.i = 0, !.seen = <<>>, !.answer = "none",
              !.textPointers = <<>>, !.passed = <<>>, !.localRefs = {}]

\* return NULL;
ReturnNull(f) == Exit([f EXCEPT !.result = NullJ], "returned")

\* Undefined behaviour, or an exception on its way out of a native function:
\* the process dies ("aborted"), or the call ends by the exception ("raised").
Dies(o) == IF o = "aborted" THEN "aborted" ELSE proc

\* How a call ends when a C++ exception leaves the native function: called by
\* the JVM nothing catches it, std::terminate runs and the process dies;
\* called from C++ code the exception reaches the caller.
Thrown == {"aborted", "raised"}

(* --------------------- createNativeAnalyzer (28-35) -------------------- *)

\* Line 32: env->ReleaseStringUTFChars(licenseKey, licenseKeyCStr), on the
\* count b of buffers held.
ReleaseKeyChars(b) == b - 1

\* The addresses operator new may answer for the next HiOCRAnalyzer.
NewAddrs ==
    LET unused == Addr \ (live \cup freed)
    IN  freed \cup {a \in unused : \A b \in unused : a <= b}

\* return reinterpret_cast<jlong>(analyzer), for an engine allocated at a.
CreateReturn(a) == a

\* keyOK: GetStringUTFChars(licenseKey) returns a buffer (it returns NULL when
\*   the string cannot be read).  The code constructs std::string from the
\*   pointer unchecked (31): from NULL that is undefined behaviour, the
\*   process dies or (libstdc++) std::logic_error leaves the function.
\* strOK: std::string licenseKeyStr(licenseKeyCStr) completes (31); otherwise
\*   its allocation throws (std::bad_alloc, std::length_error) and the
\*   exception leaves the function before line 32: the buffer is not released.
\* ctorOK: new HiOCRAnalyzer(scanType, key) completes (33); otherwise the
\*   exception of operator new or of the constructor leaves the function.
\* a: the address operator new answers: a released one, or a fresh one (the
\*   addresses never used are interchangeable, the lowest stands for them).
Create(t, keyOK, strOK, ctorOK, a) ==
    /\ proc = "running" /\ Idle(t)
    /\ constructed < MaxCreate
    /\ a \in NewAddrs
    \* a step that is not reached has no outcome to draw
    /\ ~keyOK => strOK
    /\ (~keyOK \/ ~strOK) => ctorOK
    /\ (~keyOK \/ ~strOK \/ ~ctorOK) => a = CHOOSE b \in NewAddrs : TRUE
    /\ UNCHANGED <<destructed, heapRecs, staleCalls>>
    /\ IF ~keyOK
       THEN /\ FaultBudget
            /\ faults' = faults + 1
            /\ \E o \in {"aborted", "raised"} :
                 /\ frame' = [frame EXCEPT ![t] = Exit(Fresh("create", 0), o)]
                 /\ proc' = Dies(o)
            /\ UNCHANGED <<live, freed, constructed>>
       ELSE IF ~strOK
       THEN /\ FaultBudget
            /\ faults' = faults + 1
            /\ \E o \in Thrown :
                 /\ frame' = [frame EXCEPT ![t] =
                                Exit([Fresh("create", 0) EXCEPT !.bufs = @ + 1], o)]
                 /\ proc' = Dies(o)
            /\ UNCHANGED <<live, freed, constructed>>
       ELSE IF ~ctorOK
       THEN /\ FaultBudget
            /\ faults' = faults + 1
            /\ \E o \in Thrown :
                 /\ frame' = [frame EXCEPT ![t] =
                                Exit([Fresh("create", 0) EXCEPT
                                          !.bufs = ReleaseKeyChars(@ + 1)], o)]
                 /\ proc' = Dies(o)
            /\ UNCHANGED <<live, freed, constructed>>
       ELSE /\ live' = live \cup {a}
            /\ freed' = freed \ {a}
            /\ constructed' = constructed + 1
            /\ frame' = [frame EXCEPT ![t] =
                           Exit([Fresh("create", 0) EXCEPT !.ret = CreateReturn(a),
                                                           !.bufs = ReleaseKeyChars(@ + 1)],
                                "returned")]
            /\ UNCHANGED <<faults, proc>>

(* --------------------- destroyNativeAnalyzer (18-26) ------------------- *)

\* if (handle == 0) return;
DestroyHandleIsNull(h) == h = 0

\* Variant: the delete takes every live engine down.
DeleteEngine_All(h) == {}

\* delete analyzer: the engines left live when the engine at h is deleted.
DeleteEngine(h) == live \ {h}

\* A handle that is not 0 and identifies no live engine is deleted all the
\* same (the code cannot tell): undefined behaviour, the process dies or the
\* delete runs on released memory and the call returns.
Destroy(t, h) ==
    /\ proc = "running" /\ Idle(t)
    /\ h \in CallerHandles
    /\ UNCHANGED <<constructed, heapRecs>>
    /\ IF DestroyHandleIsNull(h)
       THEN /\ frame' = [frame EXCEPT ![t] = Exit(Fresh("destroy", h), "returned")]
            /\ UNCHANGED <<live, freed, destructed, staleCalls, faults, proc>>
       ELSE IF h \in live
       THEN /\ live' = DeleteEngine(h)
            /\ freed' = freed \cup (live \ live')
            /\ destructed' = destructed + 1
            /\ frame' = [frame EXCEPT ![t] = Exit(Fresh("destroy", h), "returned")]
            /\ UNCHANGED <<staleCalls, faults, proc>>
       ELSE /\ FaultBudget
            /\ faults' = faults + 1
            /\ staleCalls' = staleCalls + 1
            /\ destructed' = destructed + 1
            /\ \E o \in {"aborted", "returned"} :
                 /\ frame' = [frame EXCEPT ![t] =
                                Exit([Fresh("destroy", h) EXCEPT !.stale = TRUE], o)]
                 /\ proc' = Dies(o)
            /\ UNCHANGED <<live, freed>>

(* --------------------- analyzeTextDataNative (37-119) ------------------ *)

\* Variant: the zero-handle check of analyze left out.
AnalyzeHandleIsNull_Unchecked(h) == FALSE

\* if (handle == 0) return NULL;
AnalyzeHandleIsNull(h) == h = 0

\* Variant: the null-array check left out.
ArrayIsNull_Unchecked(arr) == FALSE

\* if (textInfoArray == NULL) return NULL;
ArrayIsNull(arr) == arr.null

\* The two jclass local references FindClass returns (51-52); never deleted.
ClassRefs == {<<0, "HiTextInfo.class">>, <<0, "HiRect.class">>}

\* Lines 42-64: the precondition checks and the class and method lookups.
\* classOK: both FindClass calls succeed; on failure the pending exception
\*   is described and cleared (53-57).
\* methodOK: both GetMethodID calls succeed; on failure GetMethodID has thrown
\*   NoSuchMethodError, which the code leaves pending (61-64).
AnalyzeChecks(f, classOK, methodOK) ==
    IF AnalyzeHandleIsNull(f.handle) THEN ReturnNull(f)
    ELSE IF ArrayIsNull(f.arr) THEN ReturnNull(f)
    ELSE IF ~classOK THEN ReturnNull([f EXCEPT !.exc = FALSE])
    ELSE IF ~methodOK THEN ReturnNull([f EXCEPT !.exc = TRUE])
    ELSE [f EXCEPT !.pc = "loop", !.localRefs = ClassRefs]

AnalyzeEnter(t, h, arr, classOK, methodOK) ==
    /\ proc = "running" /\ Idle(t)
    /\ h \in CallerHandles
    /\ arr \in Arrays
    /\ StaleHandle(h) => FaultBudget
    /\ faults' = faults + (IF StaleHandle(h) THEN 1 ELSE 0)
    /\ staleCalls' = staleCalls + (IF StaleHandle(h) THEN 1 ELSE 0)
    \* a lookup that is not reached has no outcome to draw
    /\ (AnalyzeHandleIsNull(h) \/ ArrayIsNull(arr)) => (classOK /\ methodOK)
    /\ ~classOK => methodOK
    /\ frame' = [frame EXCEPT ![t] =
                   AnalyzeChecks([Fresh("analyze", h) EXCEPT !.arr = arr],
                                 classOK, methodOK)]
    /\ UNCHANGED <<live, freed, constructed, destructed, heapRecs, proc>>

\* Lines 76-82: getBBox() answered null, or ExceptionCheck is true after it.
\* ExceptionClear, the element reference is deleted, continue.  box: the call
\* answered an object (the check is true for an exception that was pending
\* before the call); its reference is not deleted.
SkipBBox(f, idx, box) ==
    [f EXCEPT !.i = idx, !.exc = FALSE,
              !.localRefs = (@ \cup {<<idx, "elem">>}
                               \cup (IF box THEN {<<idx, "bbox">>} ELSE {}))
                               \ {<<idx, "elem">>}]

\* Lines 84-91: getText() answered null or threw.  ExceptionClear, the element
\* and the box references are deleted, continue.
SkipText(f, idx) ==
    [f EXCEPT !.i = idx, !.exc = FALSE,
              !.localRefs = (@ \cup {<<idx, "elem">>, <<idx, "bbox">>})
                               \ {<<idx, "elem">>, <<idx, "bbox">>}]

\* Lines 94-100: the four GetDoubleField reads and HiRect rect = {x, y, width, height}.
MakeRect(r) == [x |-> r.x, y |-> r.y, width |-> r.width, height |-> r.height]

\* Lines 93, 101: new HiTextInfo(std::string(textChars), rect).  The field
\* from is not part of HiTextInfo: it names the array index the copy was made
\* from.
MakeTextInfo(e) ==
    [text |-> CStr(ModUTF8(e.text)), rect |-> MakeRect(e.rect), from |-> e.at]

\* Line 102: textPointers.push_back(textInfo).
PushBack(tp, rec) == Append(tp, rec)

\* The local references deleted at the end of a completed iteration (105-106):
\* the element and the box.  The text reference is not deleted.
DeletedOnSuccess(idx) == {<<idx, "elem">>, <<idx, "bbox">>}

\* Line 104: env->ReleaseStringUTFChars(text, textChars), on the count b of
\* buffers held.
ReleaseTextChars(b) == b - 1

\* Lines 93-106: the element is copied and appended; the UTF buffer obtained
\* at 93 is released at 104.
TakeRecord(f, e, idx) ==
    [f EXCEPT !.i = idx,
              !.textPointers = PushBack(@, MakeTextInfo(e)),
              !.created = @ + 1,
              !.bufs = ReleaseTextChars(@ + 1),
              !.localRefs = (@ \cup {<<idx, "elem">>, <<idx, "bbox">>, <<idx, "text">>})
                               \ DeletedOnSuccess(idx)]

\* The fields of HiRect the code looks up (94-97).
Fields == {"x", "y", "width", "height"}

\* The lookups that fail in one iteration, as explored: one field, two
\* fields, all four (a HiRect class without them).
LookupFailures == {{"x"}, {"width", "height"}, Fields}

\* What GetDoubleField may answer when it is handed a NULL field ID: some
\* double that is not read from the box (the values stand for any).
GarbageDoubles == {0, -1}

\* Lines 94-97: the four values read from a box r when the lookups of the
\* fields in failed answered NULL and the reads through NULL answered g.
ReadFields(r, failed, g) ==
    [x      |-> IF "x" \in failed THEN g ELSE r.x,
     y      |-> IF "y" \in failed THEN g ELSE r.y,
     width  |-> IF "width" \in failed THEN g ELSE r.width,
     height |-> IF "height" \in failed THEN g ELSE r.height]

\* One iteration of the loop of lines 69-107, for element i, which answers k.
\* utfOK: GetStringUTFChars(text) returns a buffer (93).  From NULL the
\*   std::string constructor (101) is undefined behaviour: the process dies,
\*   or std::logic_error leaves the function; the copies made so far stay
\*   allocated either way.  The NULL is used only at 101, after the lookups.
\* failed: the fields whose GetFieldID (94-97) fails.  A failed lookup
\*   returns NULL and leaves NoSuchFieldError (or OutOfMemoryError) pending;
\*   the code checks neither and hands the NULL ID to GetDoubleField, which
\*   is undefined behaviour: the process dies, or the read answers garbage
\*   and the iteration goes on with the exception pending.  It stays pending
\*   over null elements; at the next element that is not null the
\*   ExceptionCheck of line 77 finds it, and that element is skipped
\*   whatever its accessors answer; after the last element it is pending
\*   through the engine call and the return.
\* newOK: new HiTextInfo(std::string(textChars), rect) completes (101);
\*   otherwise the std::string, operator new or the constructor throws and
\*   the exception leaves the function: no record was made, the buffer of
\*   line 93 is not released and the copies made so far stay allocated.
\* pushOK: textPointers.push_back(textInfo) completes (102); otherwise the
\*   vector's reallocation throws: the record made at 101 is in no vector
\*   and stays allocated too.
AnalyzeIter(t, k, utfOK, failed, newOK, pushOK) ==
    /\ proc = "running"
    /\ frame[t].pc = "loop"
    /\ frame[t].i < frame[t].arr.len
    /\ k \in Kinds
    /\ failed \subseteq Fields
    \* lines 93-97 are reached only by an element whose accessors answered
    \* objects with no exception pending; a step that is not reached has no
    \* outcome to draw
    /\ (utfOK /\ failed = {} /\ newOK /\ pushOK) \/ (k = "ok" /\ ~frame[t].exc)
    /\ ~utfOK => newOK
    /\ (~utfOK \/ ~newOK) => pushOK
    /\ LET idx == frame[t].i + 1
           e   == MkElem(k, idx)
           f   == [frame[t] EXCEPT !.seen = Append(@, Seen(e)), !.answer = k]
           \* the failures of this iteration: the string access (93), the
           \* lookups (94-97), the allocations (101-102)
           nf  == (IF utfOK THEN 0 ELSE 1) + (IF failed = {} THEN 0 ELSE 1)
                     + (IF newOK /\ pushOK THEN 0 ELSE 1)
       IN  IF e.kind = "null"
           THEN /\ frame' = [frame EXCEPT ![t] = [f EXCEPT !.i = idx]]
                /\ UNCHANGED <<heapRecs, faults, proc>>
           ELSE IF e.kind \in {"bboxNull", "bboxRaise"} \/ f.exc
           THEN /\ frame' = [frame EXCEPT ![t] =
                               SkipBBox([f EXCEPT !.exc = (@ \/ e.kind = "bboxRaise")], idx,
                                        e.kind \notin {"bboxNull", "bboxRaise"})]
                /\ UNCHANGED <<heapRecs, faults, proc>>
           ELSE IF e.kind \in {"textNull", "textRaise"}
           THEN /\ frame' = [frame EXCEPT ![t] =
                               SkipText([f EXCEPT !.exc = (e.kind = "textRaise")], idx)]
                /\ UNCHANGED <<heapRecs, faults, proc>>
           ELSE IF utfOK /\ failed = {} /\ newOK /\ pushOK
           THEN /\ frame' = [frame EXCEPT ![t] = TakeRecord(f, e, idx)]
                /\ heapRecs' = heapRecs + (frame'[t].created - f.created)
                /\ UNCHANGED <<faults, proc>>
           ELSE IF utfOK
           THEN /\ faults + nf <= MaxFaults
                /\ faults' = faults + nf
                /\ \/ /\ newOK /\ pushOK
                      /\ \E g \in GarbageDoubles :
                           /\ frame' = [frame EXCEPT ![t] =
                                           TakeRecord([f EXCEPT !.exc = TRUE],
                                                      [e EXCEPT !.rect = ReadFields(@, failed, g)],
                                                      idx)]
                           /\ heapRecs' = heapRecs + (frame'[t].created - f.created)
                           /\ UNCHANGED proc
                   \* line 101 throws with the buffer of line 93 held
                   \/ /\ ~newOK
                      /\ \E o \in Thrown :
                           /\ frame' = [frame EXCEPT ![t] =
                                           Exit([f EXCEPT !.exc = (failed # {}),
                                                          !.bufs = @ + 1], o)]
                           /\ proc' = Dies(o)
                      /\ UNCHANGED heapRecs
                   \* line 102 throws with the buffer held and the record made
                   \/ /\ ~pushOK
                      /\ \E o \in Thrown :
                           /\ frame' = [frame EXCEPT ![t] =
                                           Exit([f EXCEPT !.exc = (failed # {}),
                                                          !.bufs = @ + 1,
                                                          !.created = @ + 1], o)]
                           /\ proc' = Dies(o)
                      /\ heapRecs' = heapRecs + 1
                   \* GetDoubleField on a NULL field ID ends the process
                   \/ /\ failed # {}
                      /\ frame' = [frame EXCEPT ![t] =
                                      Exit([f EXCEPT !.exc = TRUE, !.bufs = @ + 1], "aborted")]
                      /\ proc' = "aborted"
                      /\ UNCHANGED heapRecs
           \* GetStringUTFChars answered NULL (93).  The lookups and the reads
           \* of 94-97 run all the same, and a failed lookup leaves its
           \* exception pending; then std::string(NULL) (101) ends the call.
           ELSE /\ faults + nf <= MaxFaults
                /\ faults' = faults + nf
                /\ \E o \in {"aborted", "raised"} :
                     /\ frame' = [frame EXCEPT ![t] =
                                    Exit([f EXCEPT !.exc = (failed # {})], o)]
                     /\ proc' = Dies(o)
                /\ UNCHANGED heapRecs
    /\ UNCHANGED <<live, freed, constructed, destructed, staleCalls>>

\* Lines 110-111: the loop is over; analyzer->analyzeTextData(textPointers) is
\* entered.  On a handle that identifies no live engine this is a call on
\* released (or never allocated) memory: the process dies or the call runs.
AnalyzeCall(t) ==
    /\ proc = "running"
    /\ frame[t].pc = "loop"
    /\ frame[t].i >= frame[t].arr.len
    /\ LET f == frame[t]
           g == [f EXCEPT !.pc = "engine", !.passed = f.textPointers,
                          !.engineCalls = @ + 1]
       IN  IF f.handle \in live
           THEN /\ frame' = [frame EXCEPT ![t] = g]
                /\ UNCHANGED proc
           ELSE \/ /\ frame' = [frame EXCEPT ![t] = [g EXCEPT !.stale = TRUE]]
                   /\ UNCHANGED proc
                \/ /\ frame' = [frame EXCEPT ![t] =
                                  Exit([g EXCEPT !.stale = TRUE], "aborted")]
                   /\ proc' = "aborted"
    /\ UNCHANGED <<live, freed, constructed, destructed, heapRecs, staleCalls, faults>>

\* Lines 114-116: the number of HiTextInfo objects the clean-up loop deletes.
ReleaseRecords(tp) == Len(tp)

\* Variant: the call deletes the engine it used.
EnginesAfterAnalyze_Deleted(h) == live \ {h}

\* Lines 110-118: the engines live after analyzeTextData was called through
\* handle h; the function holds a plain pointer and deletes nothing.
EnginesAfterAnalyze(h) == live

\* Lines 111-118: analyzeTextData returns ans.s, the copies are deleted and
\* NewStringUTF(result.c_str()) is returned; or analyzeTextData throws, and
\* the exception leaves the function past the clean-up loop.
AnalyzeReturn(t, ans) ==
    /\ proc = "running"
    /\ frame[t].pc = "engine"
    /\ ans \in EngineAnswers
    /\ LET f == frame[t]
           n == ReleaseRecords(f.textPointers)
       IN  IF ans.raises
           THEN /\ FaultBudget
                /\ faults' = faults + 1
                /\ \E o \in Thrown :
                     /\ frame' = [frame EXCEPT ![t] = Exit(f, o)]
                     /\ proc' = Dies(o)
                /\ UNCHANGED heapRecs
           ELSE /\ frame' = [frame EXCEPT ![t] =
                               Exit([f EXCEPT !.engineOut = ans.s, !.released = n,
                                              !.result = NewStringUTF(ans.s)], "returned")]
                /\ heapRecs' = heapRecs - n
                /\ UNCHANGED <<faults, proc>>
    /\ live' = EnginesAfterAnalyze(frame[t].handle)
    /\ freed' = freed \cup (live \ live')
    /\ UNCHANGED <<constructed, destructed, staleCalls>>

(* --------------------- decryptionDataNative (121-136) ------------------ *)

\* if (handle == 0) return NULL;
DecryptHandleIsNull(h) == h = 0

\* Line 129: env->ReleaseStringUTFChars(input, pcInput), on the count b of
\* buffers held.
ReleaseInputChars(b) == b - 1

\* Variant: the call deletes the engine it used.
EnginesAfterDecrypt_Deleted(h) == live \ {h}

\* Lines 132-135: the engines live after decryptionData was called through
\* handle h; the function holds a plain pointer and deletes nothing.
EnginesAfterDecrypt(h) == live

\* inputOK: GetStringUTFChars(input) returns a buffer (never for a null
\*   input).  From NULL the std::string constructor (128) is undefined
\*   behaviour.
\* strOK: std::string inputStr(pcInput) completes (128); otherwise its
\*   allocation throws and the exception leaves the function before line
\*   129: the buffer is not released.
\* ans: decryptionData returns ans.s or throws, and the exception leaves the
\*   function.
Decrypt(t, h, input, inputOK, strOK, ans) ==
    /\ proc = "running" /\ Idle(t)
    /\ h \in CallerHandles
    /\ input \in DecryptInputs
    /\ ans \in EngineAnswers
    \* a step that is not reached has no outcome to draw
    /\ (DecryptHandleIsNull(h) \/ input.null) => inputOK
    /\ (DecryptHandleIsNull(h) \/ input.null \/ ~inputOK) => strOK
    /\ (DecryptHandleIsNull(h) \/ input.null \/ ~inputOK \/ ~strOK) => ans.raises
    /\ UNCHANGED <<constructed, destructed, heapRecs>>
    /\ staleCalls' = staleCalls + (IF StaleHandle(h) THEN 1 ELSE 0)
    /\ LET f  == [Fresh("decrypt", h) EXCEPT !.input = input]
           n0 == IF StaleHandle(h) THEN 1 ELSE 0
       IN
       IF DecryptHandleIsNull(h)
       THEN /\ frame' = [frame EXCEPT ![t] = ReturnNull(f)]
            /\ UNCHANGED <<live, freed, faults, proc>>
       ELSE IF input.null \/ ~inputOK
       THEN /\ faults + n0 + 1 <= MaxFaults
            /\ faults' = faults + n0 + 1
            /\ \E o \in {"aborted", "raised"} :
                 /\ frame' = [frame EXCEPT ![t] = Exit(f, o)]
                 /\ proc' = Dies(o)
            /\ UNCHANGED <<live, freed>>
       ELSE IF ~strOK
       THEN /\ faults + n0 + 1 <= MaxFaults
            /\ faults' = faults + n0 + 1
            /\ \E o \in Thrown :
                 /\ frame' = [frame EXCEPT ![t] = Exit([f EXCEPT !.bufs = @ + 1], o)]
                 /\ proc' = Dies(o)
            /\ UNCHANGED <<live, freed>>
       ELSE LET g == [f EXCEPT !.engineIn = CStr(ModUTF8(input.chars)),
                               !.bufs = ReleaseInputChars(@ + 1),
                               !.engineCalls = @ + 1,
                               !.stale = (h \notin live)]
                nf == n0 + (IF ans.raises THEN 1 ELSE 0)
            IN  /\ faults + nf <= MaxFaults
                /\ faults' = faults + nf
                /\ live' = EnginesAfterDecrypt(h)
                /\ freed' = freed \cup (live \ live')
                /\ \/ /\ ans.raises
                      /\ \E o \in Thrown :
                           /\ frame' = [frame EXCEPT ![t] = Exit(g, o)]
                           /\ proc' = Dies(o)
                   \/ /\ ~ans.raises
                      /\ frame' = [frame EXCEPT ![t] =
                                     Exit([g EXCEPT !.engineOut = ans.s,
                                                    !.result = NewStringUTF(ans.s)],
                                          "returned")]
                      /\ UNCHANGED proc
                   \/ /\ h \notin live
                      /\ frame' = [frame EXCEPT ![t] = Exit(g, "aborted")]
                      /\ proc' = "aborted"

(* ------------------------------ the system ----------------------------- *)

Next ==
    \/ \E t \in Threads, keyOK \in BOOLEAN, strOK \in BOOLEAN, ctorOK \in BOOLEAN,
          a \in Addr :
           Create(t, keyOK, strOK, ctorOK, a)
    \/ \E t \in Threads, h \in {0} \cup Addr : Destroy(t, h)
    \/ \E t \in Threads, h \in {0} \cup Addr, arr \in Arrays,
          classOK \in BOOLEAN, methodOK \in BOOLEAN :
           AnalyzeEnter(t, h, arr, classOK, methodOK)
    \* only an element whose accessors answer objects reaches lines 93-102
    \/ \E t \in Threads, k \in Kinds :
         \E utfOK \in (IF k = "ok" THEN BOOLEAN ELSE {TRUE}),
            failed \in (IF k = "ok" THEN {{}} \cup LookupFailures ELSE {{}}),
            newOK \in (IF k = "ok" THEN BOOLEAN ELSE {TRUE}),
            pushOK \in (IF k = "ok" THEN BOOLEAN ELSE {TRUE}) :
           AnalyzeIter(t, k, utfOK, failed, newOK, pushOK)
    \/ \E t \in Threads : AnalyzeCall(t)
    \/ \E t \in Threads, ans \in EngineAnswers : AnalyzeReturn(t, ans)
    \* only a call with a handle that is not 0 reaches lines 127-135
    \/ \E t \in Threads, h \in {0} \cup Addr, input \in DecryptInputs :
         \E inputOK \in (IF h = 0 THEN {TRUE} ELSE BOOLEAN),
            strOK \in (IF h = 0 THEN {TRUE} ELSE BOOLEAN),
            ans \in (IF h = 0 THEN {a \in EngineAnswers : a.raises} ELSE EngineAnswers) :
           Decrypt(t, h, input, inputOK, strOK, ans)

Spec == Init /\ [][Next]_vars

(* ---------------- calls interleaved from two threads ------------------- *)

\* Two caller threads, each with its own JNIEnv and its own call frames.
ConcThreads == {1, 2}

InitConc ==
    /\ live = {}
    /\ freed = {}
    /\ constructed = 0
    /\ destructed = 0
    /\ heapRecs = 0
    /\ staleCalls = 0
    /\ faults = 0
    /\ proc = "running"
    /\ frame = [t \in ConcThreads |-> Fresh("none", 0)]

\* The collections and the element answers the interleaved calls are given.
ConcArrays == {MkArr(0), MkArr(1), MkArr(2)}
ConcKinds == {"ok", "textNull"}

\* A thread other than t has a call in flight on handle h.
InFlightOn(h, t) ==
    \E u \in Threads \ {t} : frame[u].pc # "idle" /\ frame[u].handle = h

\* The caller's side of the contract: analyze is called on the handle of a
\* live engine that no other thread is using, and an engine is destroyed
\* only when no call on it is in flight.
ConcAnalyzeEnter(t, h, arr) ==
    /\ h \in live /\ ~InFlightOn(h, t)
    /\ AnalyzeEnter(t, h, arr, TRUE, TRUE)

ConcDestroy(t, h) ==
    /\ h \in live /\ ~InFlightOn(h, t)
    /\ Destroy(t, h)

NextConc ==
    \/ \E t \in Threads, a \in Addr : Create(t, TRUE, TRUE, TRUE, a)
    \/ \E t \in Threads, h \in Addr : ConcDestroy(t, h)
    \/ \E t \in Threads, h \in Addr, arr \in ConcArrays : ConcAnalyzeEnter(t, h, arr)
    \/ \E t \in Threads, k \in ConcKinds : AnalyzeIter(t, k, TRUE, {}, TRUE, TRUE)
    \/ \E t \in Threads : AnalyzeCall(t)
    \/ \E t \in Threads, ans \in EngineAnswers : AnalyzeReturn(t, ans)

SpecConc == InitConc /\ [][NextConc]_vars

(* ------------------------------ properties ----------------------------- *)

\* A call of op that is over and did not end with the process dying.
Over(f, op) == f.op = op /\ f.pc = "idle" /\ f.outcome \in {"returned", "raised"}

\* The indices of the well-formed elements among those retrieved, ascending.
OkIdx(seen) == SelectSeq([j \in 1..Len(seen) |-> j], LAMBDA j : seen[j].ok)

\* The local references taken for elements (not the two class references).
ElementRefs(f) == {r \in f.localRefs : r[1] >= 1}

\* C1: every analyze call that handed its copies to the engine and is over
\* has released every HiTextInfo copy it created, whether analyzeTextData
\* returned or raised.
C1_AllCopiesReleased ==
    \A t \in Threads :
        (Over(frame[t], "analyze") /\ frame[t].engineCalls >= 1) =>
            frame[t].released = frame[t].created

\* C2: no analyze, decrypt or destroy call reaches an engine instance that is
\* not live (a handle that is zero or was destroyed is refused).
C2_NoStaleUse ==
    \A t \in Threads :
        frame[t].op \in {"analyze", "decrypt", "destroy"} => ~frame[t].stale

\* C3: analyze and decrypt with handle 0 are over at once, return the null
\* result and make no call into the engine, whatever the other argument.
C3_NullHandleRefused ==
    \A t \in Threads :
        LET f == frame[t] IN
        (f.op \in {"analyze", "decrypt"} /\ f.handle = 0) =>
            /\ f.pc = "idle" /\ f.outcome = "returned"
            /\ f.result.null
            /\ f.engineCalls = 0 /\ ~f.stale

\* C3 witness: analyze was called with handle 0 and a non-empty array, and
\* returned null.
C3_Witness ==
    \E t \in Threads :
        LET f == frame[t] IN
        /\ Over(f, "analyze") /\ f.handle = 0
        /\ ~f.arr.null /\ f.arr.len >= 1
        /\ f.result.null /\ f.engineCalls = 0

\* C4: analyze with a non-zero handle and a null array returns the null
\* result without extraction: the loop is never entered, no element is
\* retrieved, no HiTextInfo is created, the engine is not called.
C4_NullArrayRefused ==
    \A t \in Threads :
        LET f == frame[t] IN
        (f.op = "analyze" /\ f.handle # 0 /\ f.arr.null) =>
            /\ f.pc = "idle" /\ f.outcome = "returned"
            /\ f.result.null
            /\ f.seen = <<>> /\ f.created = 0 /\ f.engineCalls = 0

\* C4 witness: analyze was called on a live engine with a null array and
\* returned null.
C4_Witness ==
    \E t \in Threads :
        LET f == frame[t] IN
        /\ Over(f, "analyze") /\ f.handle \in live /\ f.arr.null
        /\ f.result.null

\* C5: when every element of a non-empty array is well-formed, the vector
\* handed to analyzeTextData is as long as the array.
C5_NoDrop ==
    \A t \in Threads :
        LET f == frame[t] IN
        (f.op = "analyze" /\ f.pc = "engine" /\ f.arr.len >= 1
            /\ \A j \in 1..Len(f.seen) : f.seen[j].ok) =>
            Len(f.passed) = f.arr.len

\* C6: throughout extraction the number of HiTextInfo copies created is the
\* number of well-formed elements retrieved, and the vector is the
\* well-formed elements in their original order, the malformed ones left out;
\* with exactly one malformed element among N the vector handed to the engine
\* has N-1 entries.
C6_StableSkip ==
    \A t \in Threads :
        LET f   == frame[t]
            idx == OkIdx(f.seen)
            tp  == IF f.pc = "engine" THEN f.passed ELSE f.textPointers
        IN  (f.op = "analyze" /\ f.pc \in {"loop", "engine"}) =>
            /\ f.created = Len(idx)
            /\ Len(tp) = Len(idx)
            /\ \A m \in 1..Len(idx) : tp[m].from = idx[m]
            /\ (f.pc = "engine" /\ Len(idx) = f.arr.len - 1) =>
                   Len(f.passed) = f.arr.len - 1

\* C7: when no call is in flight and every engine created has been destroyed
\* exactly once, as many engines were destructed as constructed and no
\* HiTextInfo copy is allocated.
C7_NoLeakAfterLifecycles ==
    (/\ proc = "running"
     /\ \A t \in Threads : Idle(t)
     /\ constructed >= 1 /\ live = {} /\ staleCalls = 0) =>
        (constructed - destructed = 0 /\ heapRecs = 0)

\* C8: every create call returns; it returns a non-zero handle of a live
\* engine, or 0 for a failure, and never ends by an exception or by the
\* process dying.
C8_CreateSignalsByZero ==
    \A t \in Threads :
        LET f == frame[t] IN
        f.op = "create" =>
            /\ f.outcome = "returned"
            /\ f.ret = 0 \/ f.ret \in live \cup freed

\* C9: destroy with handle 0 leaves the engines as they are; destroy with the
\* handle of a live engine releases that engine and no other.
C9_DestroyFrame ==
    [][\A t \in Threads, h \in {0} \cup Addr :
          Destroy(t, h) =>
              /\ h = 0 => (live' = live /\ freed' = freed /\ destructed' = destructed)
              /\ (h # 0 /\ h \in live) =>
                     /\ live' = live \ {h}
                     /\ destructed' = destructed + 1
              /\ constructed' = constructed]_vars

\* C9 witness: destroy released the engine of a live handle while another
\* engine stays live.
C9_Witness ==
    \E t \in Threads :
        LET f == frame[t] IN
        /\ Over(f, "destroy") /\ f.handle # 0 /\ ~f.stale
        /\ f.handle \in freed
        /\ live # {} /\ destructed = 1

\* C10: at the start of every iteration and at the end of extraction no local
\* reference taken for an element (element, box, text) is outstanding.
C10_NoElementRefsOutstanding ==
    \A t \in Threads :
        frame[t].pc \in {"loop", "engine"} => ElementRefs(frame[t]) = {}

\* C11: a foreign-runtime error raised while an element is marshalled is
\* cleared where it occurs: none is pending when the next element is
\* processed, and none is pending when analyzeTextData is invoked.
C11_NoErrorPendingInExtraction ==
    \A t \in Threads :
        (frame[t].op = "analyze" /\ frame[t].pc \in {"loop", "engine"}) => ~frame[t].exc

\* C12: every UTF buffer obtained by a call (the license key in create, the
\* text of each element in analyze, the input in decrypt) has been released,
\* once, when the call is over, whether it returned or an exception left it;
\* analyze holds none between two elements either.
C12_BuffersReleased ==
    \A t \in Threads :
        frame[t].outcome # "aborted" => frame[t].bufs = 0

\* C13: a decrypt call on the handle of a live engine calls decryptionData
\* once, with a value that is the input string, and what it returns is the
\* string the engine answered, unchanged.  (The engine's strings here are
\* bytes below 128, one byte per character.)
C13_DecryptPassesThrough ==
    \A t \in Threads :
        LET f == frame[t] IN
        (Over(f, "decrypt") /\ f.outcome = "returned" /\ f.handle # 0 /\ ~f.stale) =>
            /\ f.engineCalls = 1
            /\ FromModUTF8(f.engineIn) = f.input.chars
            /\ ~f.result.null
            /\ f.result.chars = f.engineOut

\* C14: an analyze call that fails at call level (zero handle, null
\* collection, a class or an accessor that is not found), that is, returns
\* without having reached the engine, answers null, has created no TextRecord
\* copy and leaves no foreign-runtime error pending.
C14_CallLevelFailureIsClean ==
    \A t \in Threads :
        LET f == frame[t] IN
        (Over(f, "analyze") /\ f.outcome = "returned" /\ f.engineCalls = 0) =>
            /\ f.result.null
            /\ f.created = 0
            /\ ~f.exc

\* C15: every TextRecord copy built by extraction carries the text of the
\* element it was built from and a rectangle whose x, y, width and height are
\* that element's x, y, width and height, each in its own field, whatever
\* their sign.
C15_CopyIsFaithful ==
    \A t \in Threads :
        LET f  == frame[t]
            tp == IF f.pc = "engine" THEN f.passed ELSE f.textPointers
        IN  f.pc \in {"loop", "engine"} =>
                \A m \in 1..Len(tp) :
                    LET src == f.seen[tp[m].from] IN
                    /\ FromModUTF8(tp[m].text) = src.text
                    /\ tp[m].rect.x = src.rect.x
                    /\ tp[m].rect.y = src.rect.y
                    /\ tp[m].rect.width = src.rect.width
                    /\ tp[m].rect.height = src.rect.height

\* C16: as long as the caller has passed no handle of a released or unknown
\* engine, every engine call made by analyze or decrypt is made on a live
\* engine, and that engine is live again when the call is over, whether it
\* returned or threw.
C16_HandleLifecycle ==
    staleCalls = 0 =>
        \A t \in Threads :
            LET f == frame[t] IN
            f.op \in {"analyze", "decrypt"} =>
                /\ ~f.stale
                /\ f.pc = "engine" => f.handle \in live
                /\ ((Over(f, "analyze") \/ Over(f, "decrypt")) /\ f.engineCalls >= 1) =>
                       f.handle \in live

\* C16 witness: an analyze call that reached the engine has returned and its
\* engine is live, after another engine went through its whole life.
C16_Witness ==
    \E t \in Threads :
        LET f == frame[t] IN
        /\ staleCalls = 0
        /\ Over(f, "analyze") /\ f.outcome = "returned" /\ f.engineCalls = 1
        /\ f.handle \in live
        /\ destructed = 1

\* C17: no step of analyze or decrypt releases, adds or replaces an engine,
\* whether the call succeeds or fails; an engine leaves the live set only in
\* a destroy with a non-zero handle and enters it only in a create.
C17_OnlyCreateAndDestroyChangeEngines ==
    [][/\ live' # live => frame' # frame
       /\ \A t \in Threads :
              \* the step belongs to the entry point named in the frame it wrote
              frame'[t] # frame[t] =>
                  /\ frame'[t].op \in {"analyze", "decrypt"} =>
                         /\ live' = live
                         /\ constructed' = constructed
                         /\ destructed' = destructed
                  /\ live \ live' # {} =>
                         (frame'[t].op = "destroy" /\ frame'[t].handle # 0)
                  /\ live' \ live # {} => frame'[t].op = "create"]_vars

\* C17 witness: a decrypt call whose engine call threw is over and the engine
\* it used is live.
C17_Witness ==
    \E t \in Threads :
        LET f == frame[t] IN
        /\ Over(f, "decrypt") /\ f.outcome = "raised" /\ f.engineCalls = 1
        /\ ~f.stale /\ f.handle \in live

\* C18: an analyze call that passed its checks calls analyzeTextData once,
\* after the loop and not before, and when it returns, what it returns is
\* the string that call answered, unchanged; an empty extracted sequence
\* makes no difference.  (The engine's strings here are bytes below 128, one
\* byte per character.)
C18_AnalyzePassesThrough ==
    \A t \in Threads :
        LET f == frame[t] IN
        f.op = "analyze" =>
            /\ f.pc = "loop" => f.engineCalls = 0
            /\ f.pc = "engine" => f.engineCalls = 1
            /\ (Over(f, "analyze") /\ f.outcome = "returned" /\ f.engineCalls >= 1) =>
                   /\ f.engineCalls = 1
                   /\ ~f.result.null
                   /\ f.result.chars = f.engineOut

\* The copies held by the analyze calls in flight on the threads of ts.
RECURSIVE CopiesInFlight(_)
CopiesInFlight(ts) ==
    IF ts = {} THEN 0
    ELSE LET t == CHOOSE u \in ts : TRUE
         IN  Len(frame[t].textPointers) + CopiesInFlight(ts \ {t})

\* C19: when analyze calls on different live handles are interleaved from
\* different threads, each call hands its engine the copies it made from the
\* well-formed elements of its own collection, in order, and when it is over
\* it has released the copies it created, all of them; no copy that a call in
\* flight still holds has been released.
C19_InterleavedCallsAreIsolated ==
    \A t \in Threads :
        LET f   == frame[t]
            idx == OkIdx(f.seen)
        IN  /\ heapRecs >= CopiesInFlight(Threads)
            /\ f.pc = "engine" =>
                   /\ Len(f.passed) = Len(idx)
                   /\ \A m \in 1..Len(idx) :
                          /\ f.passed[m].from = idx[m]
                          /\ FromModUTF8(f.passed[m].text) = f.seen[idx[m]].text
                          /\ f.passed[m].rect = f.seen[idx[m]].rect
            /\ (/\ f.op = "analyze" /\ f.pc = "idle" /\ f.engineCalls = 1
                /\ \E u \in Threads \ {t} :
                      /\ frame[u].op = "analyze" /\ frame[u].pc # "idle"
                      /\ frame[u].handle # f.handle)
               => f.released = f.created
====
